---- MODULE Spec2Model ----
(***************************************************************************)
(* A model of deca, a CHIP-8 / SUPER-CHIP / XO-CHIP interpreter core:      *)
(* the Chip8 struct of src/src/lib.rs (fetch, decode, execute, run, skip)  *)
(* and the Display struct of src/src/display.rs (clear, draw, the four     *)
(* scrolls, plane, hires, lores).                                          *)
(*                                                                         *)
(* The two big arrays are kept sparse.  memory ([u8; 65536]) and the       *)
(* display buffer ([[u8; 128]; 64]) are functions whose domain is the set  *)
(* of indices holding a non-zero value; every other index reads as 0, the  *)
(* value both arrays are constructed with.  Reads go through MemAt and Px, *)
(* writes through MemSet and Sparse, so the arrays behave as the dense     *)
(* ones do while a state stays small.                                      *)
(*                                                                         *)
(* A Rust panic (an index out of bounds, todo!(), an arithmetic overflow   *)
(* in a build with overflow checks) ends the call with res = "Panic".      *)
(***************************************************************************)
EXTENDS Integers, Sequences, FiniteSets, TLC

VARIABLES
    pc,              \* Chip8::pc: u16
    sp,              \* Chip8::sp: usize
    stack,           \* Chip8::stack: [u16; 16]
    memory,          \* Chip8::memory: [u8; 65536], sparse
    i,               \* Chip8::i: u16
    v,               \* Chip8::v: [u8; 16]
    flags,           \* Chip8::flags: [u8; 16]
    delay,           \* Chip8::delay: u8
    sound,           \* Chip8::sound: u8
    display,         \* Chip8::display: Display, a record of Display's fields
    options,         \* Chip8::options, the quirks that the core reads
    keyboard,        \* Chip8::keyboard: [bool; 16]
    overflow_checks, \* whether the build panics on integer overflow (debug) or wraps (release)
    result,          \* what the last call of the host returned: "Ok", an error message or "Panic"
    trace,           \* the opcodes the last call fetched and executed, with their addresses
    last,            \* the last call of the host and the state it started from
    before,          \* the call before that one, likewise
    ops              \* number of calls the host has made

vars == << pc, sp, stack, memory, i, v, flags, delay, sound, display, options,
           keyboard, overflow_checks, result, trace, last, before, ops >>

-----------------------------------------------------------------------------
(* Sizes fixed by the source.                                              *)

StackLen == 16
MemLen == 65536
BufRows == 64
BufCols == 128
LoWidth == 64
LoHeight == 32
HiWidth == 128
HiHeight == 64
StartAddress == 512
ScrollPixels == 4

Byte == 0..255
Reg == 0..15

-----------------------------------------------------------------------------
(* u8 and u16 arithmetic and bit operations.                               *)

RECURSIVE BitAnd(_, _)
BitAnd(a, b) ==
    IF a = 0 \/ b = 0 THEN 0
    ELSE (a % 2) * (b % 2) + 2 * BitAnd(a \div 2, b \div 2)

BitOr(a, b) == a + b - BitAnd(a, b)

BitXor(a, b) == a + b - 2 * BitAnd(a, b)

\* x & !p on u8
AndNot(a, p) == a - BitAnd(a, p)

Wrap8(n) == n % 256

Wrap16(n) == n % 65536

-----------------------------------------------------------------------------
(* The display buffer, sparse: buf is a function from the cells <<y, x>>   *)
(* that hold a non-zero value to that value.                               *)

Px(buf, y, x) == IF <<y, x>> \in DOMAIN buf THEN buf[<<y, x>>] ELSE 0

InBuf(y, x) == y \in 0..(BufRows - 1) /\ x \in 0..(BufCols - 1)

\* The array that holds f[c] in each cell c of DOMAIN f and 0 elsewhere.
Sparse(f) == [c \in {k \in DOMAIN f : f[k] # 0} |-> f[c]]

NewDisplay ==
    [ display |-> << >>, dirty |-> FALSE, clear |-> TRUE, hires |-> FALSE,
      width |-> LoWidth, height |-> LoHeight, active_plane |-> 1 ]

clear(d, all_planes) ==
    LET val(c) == IF all_planes THEN 0 ELSE AndNot(d.display[c], d.active_plane)
    IN  [d EXCEPT !.display = Sparse([c \in DOMAIN d.display |-> val(c)]),
                  !.dirty = TRUE,
                  !.clear = TRUE]

\* DrawHits as it would be without the test that ends a row at the right edge.
DrawHits_NoClip(d, sprite, x, y) ==
    { <<y + r, x + c>> : <<r, c>> \in
        { rc \in (0..(Len(sprite) - 1)) \X (0..15) :
            /\ rc[1] + y < d.height
            /\ rc[2] < Len(sprite[rc[1] + 1])
            /\ sprite[rc[1] + 1][rc[2] + 1] = 1 } }

\* The cells the two loops of draw reach with a set sprite pixel.  Both loops
\* break at the first row or column beyond the screen, and rows and columns
\* only grow, so a pixel is reached iff it lies on the screen.
DrawHits(d, sprite, x, y) ==
    { <<y + r, x + c>> : <<r, c>> \in
        { rc \in (0..(Len(sprite) - 1)) \X (0..15) :
            /\ rc[1] + y < d.height
            /\ rc[2] < Len(sprite[rc[1] + 1])
            /\ rc[2] + x < d.width
            /\ sprite[rc[1] + 1][rc[2] + 1] = 1 } }

\* draw as it would be if it set pixels instead of flipping them.
draw_SetsOnly(d, sprite, x0, y0) ==
    LET x == x0 % d.width
        y == y0 % d.height
        hits == DrawHits(d, sprite, x, y)
        old(c) == Px(d.display, c[1], c[2])
        val(c) == IF c \in hits THEN BitOr(old(c), d.active_plane) ELSE old(c)
        collision == IF \E c \in hits : BitAnd(old(c), d.active_plane) # 0
                     THEN 1 ELSE 0
    IN  [ d |-> [d EXCEPT !.display = Sparse([c \in DOMAIN d.display \cup hits |-> val(c)]),
                          !.clear = FALSE,
                          !.dirty = TRUE],
          collision |-> collision ]

draw(d, sprite, x0, y0) ==
    LET x == x0 % d.width
        y == y0 % d.height
        hits == DrawHits(d, sprite, x, y)
        old(c) == Px(d.display, c[1], c[2])
        val(c) == IF c \in hits
                  THEN IF BitAnd(old(c), d.active_plane) = 0
                       THEN BitOr(old(c), d.active_plane)
                       ELSE AndNot(old(c), d.active_plane)
                  ELSE old(c)
        collision == IF \E c \in hits : BitAnd(old(c), d.active_plane) # 0
                     THEN 1 ELSE 0
    IN  [ d |-> [d EXCEPT !.display = Sparse([c \in DOMAIN d.display \cup hits |-> val(c)]),
                          !.clear = FALSE,
                          !.dirty = TRUE],
          collision |-> collision ]

\* One pass of a scroll's inner loop over the cells src of one row (or one
\* column): for each cell c of src, in any order,
\*     display[c + (dy, dx)] |= display[c] & active_plane;
\*     display[c] &= !active_plane;
\* The cells of src and their targets lie in different rows (columns), so no
\* cell is both read and written in the pass.  A cell of src that holds 0 is
\* left as it is and ORs nothing into its target.
ShiftLine(buf, src, dy, dx, p) ==
    LET from == {c \in DOMAIN buf : c \in src}
        to == { <<c[1] + dy, c[2] + dx>> : c \in from }
        val(c) == IF c \in to
                  THEN BitOr(Px(buf, c[1], c[2]),
                             BitAnd(Px(buf, c[1] - dy, c[2] - dx), p))
                  ELSE IF c \in from
                       THEN AndNot(buf[c], p)
                       ELSE buf[c]
    IN  Sparse([c \in DOMAIN buf \cup to |-> val(c)])

\* display[c] &= !active_plane for every cell c of cells.
ClearCells(buf, cells, p) ==
    LET val(c) == IF c \in cells THEN AndNot(buf[c], p) ELSE buf[c]
    IN  Sparse([c \in DOMAIN buf |-> val(c)])

RowCells(y, w) == {y} \X (0..(w - 1))

ColCells(x, h) == (0..(h - 1)) \X {x}

\* The loops below run a pass for every line of a range, in the order the
\* source takes them.  The range is split in halves, the half the source
\* reaches first being done first, which keeps the evaluation shallow.  A
\* buffer that holds only zeros is left as it is by every pass.

\* for y in lo..=hi, rows in ascending order (scroll_up: pixels..self.height)
RECURSIVE ScrollUpLoop(_, _, _, _, _, _)
ScrollUpLoop(buf, lo, hi, pixels, w, p) ==
    IF lo > hi THEN buf
    ELSE IF lo = hi THEN ShiftLine(buf, RowCells(lo, w), 0 - pixels, 0, p)
    ELSE LET mid == (lo + hi) \div 2
             half == ScrollUpLoop(buf, lo, mid, pixels, w, p)
         IN  IF DOMAIN half = {} THEN half
             ELSE ScrollUpLoop(half, mid + 1, hi, pixels, w, p)

\* The second loop of scroll_up runs x over 0..=self.width: in lores it also
\* clears column 64, which is off screen, and in hires it indexes column 128
\* of a 128-column row, which panics in the first row it visits, after that
\* row's columns 0..127 are cleared and before dirty is set.
scroll_up(d, pixels) ==
    IF ~d.clear /\ pixels > 0
    THEN LET moved == ScrollUpLoop(d.display, pixels, d.height - 1, pixels, d.width,
                                   d.active_plane)
         IN  IF d.width > BufCols - 1
             THEN [ d |-> [d EXCEPT !.display =
                              ClearCells(moved, RowCells(d.height - pixels, d.width),
                                         d.active_plane)],
                    panic |-> TRUE ]
             ELSE [ d |-> [d EXCEPT !.display =
                              ClearCells(moved,
                                         ((d.height - pixels)..(d.height - 1))
                                             \X (0..d.width),
                                         d.active_plane),
                                    !.dirty = TRUE],
                    panic |-> FALSE ]
    ELSE [ d |-> d, panic |-> FALSE ]

\* for y in (lo..=hi).rev(), rows in descending order
\* (scroll_down: (0..self.height - pixels).rev())
RECURSIVE ScrollDownLoop(_, _, _, _, _, _)
ScrollDownLoop(buf, lo, hi, pixels, w, p) ==
    IF lo > hi THEN buf
    ELSE IF lo = hi THEN ShiftLine(buf, RowCells(lo, w), pixels, 0, p)
    ELSE LET mid == (lo + hi) \div 2
             half == ScrollDownLoop(buf, mid + 1, hi, pixels, w, p)
         IN  IF DOMAIN half = {} THEN half
             ELSE ScrollDownLoop(half, lo, mid, pixels, w, p)

scroll_down(d, pixels) ==
    IF ~d.clear /\ pixels > 0
    THEN LET moved == ScrollDownLoop(d.display, 0, d.height - pixels - 1, pixels,
                                     d.width, d.active_plane)
         IN  [d EXCEPT !.display =
                          ClearCells(moved, (0..(pixels - 1)) \X (0..(d.width - 1)),
                                     d.active_plane),
                       !.dirty = TRUE]
    ELSE d

\* The horizontal scrolls loop over the rows and, inside, over the columns.
\* A row's pass touches that row only, so the passes are modelled column by
\* column, every row at once, in the order the inner loop takes the columns.
\* for x in lo..=hi, columns in ascending order (scroll_left: pixels..self.width)
RECURSIVE ScrollLeftLoop(_, _, _, _, _, _)
ScrollLeftLoop(buf, lo, hi, pixels, h, p) ==
    IF lo > hi THEN buf
    ELSE IF lo = hi THEN ShiftLine(buf, ColCells(lo, h), 0, 0 - pixels, p)
    ELSE LET mid == (lo + hi) \div 2
             half == ScrollLeftLoop(buf, lo, mid, pixels, h, p)
         IN  IF DOMAIN half = {} THEN half
             ELSE ScrollLeftLoop(half, mid + 1, hi, pixels, h, p)

scroll_left(d, pixels) ==
    IF ~d.clear /\ pixels > 0
    THEN LET moved == ScrollLeftLoop(d.display, pixels, d.width - 1, pixels, d.height,
                                     d.active_plane)
         IN  [d EXCEPT !.display =
                          ClearCells(moved,
                                     (0..(d.height - 1))
                                         \X ((d.width - pixels)..(d.width - 1)),
                                     d.active_plane),
                       !.dirty = TRUE]
    ELSE d

\* for x in (lo..=hi).rev(), columns in descending order
\* (scroll_right: (0..self.width - pixels).rev())
RECURSIVE ScrollRightLoop(_, _, _, _, _, _)
ScrollRightLoop(buf, lo, hi, pixels, h, p) ==
    IF lo > hi THEN buf
    ELSE IF lo = hi THEN ShiftLine(buf, ColCells(lo, h), 0, pixels, p)
    ELSE LET mid == (lo + hi) \div 2
             half == ScrollRightLoop(buf, mid + 1, hi, pixels, h, p)
         IN  IF DOMAIN half = {} THEN half
             ELSE ScrollRightLoop(half, lo, mid, pixels, h, p)

scroll_right(d, pixels) ==
    IF ~d.clear /\ pixels > 0
    THEN LET moved == ScrollRightLoop(d.display, 0, d.width - pixels - 1, pixels,
                                      d.height, d.active_plane)
         IN  [d EXCEPT !.display =
                          ClearCells(moved, (0..(d.height - 1)) \X (0..(pixels - 1)),
                                     d.active_plane),
                       !.dirty = TRUE]
    ELSE d

plane(d, n) == [d EXCEPT !.active_plane = n]

\* self.clear(true) and then self.clear = true
hires(d, clr) ==
    LET m == [d EXCEPT !.hires = TRUE, !.width = HiWidth, !.height = HiHeight]
    IN  IF clr /\ ~m.clear THEN [clear(m, TRUE) EXCEPT !.clear = TRUE] ELSE m

lores(d, clr) ==
    LET m == [d EXCEPT !.hires = FALSE, !.width = LoWidth, !.height = LoHeight]
    IN  IF clr /\ ~m.clear THEN [clear(m, TRUE) EXCEPT !.clear = TRUE] ELSE m

-----------------------------------------------------------------------------
(* The interpreter.  The operators below take and return a record c of the *)
(* Chip8 fields, with two more: res, the Result of the call in progress    *)
(* ("Ok", the error message, or "Panic"), and trace, the instructions the  *)
(* call has executed.                                                      *)

MemAt(mem, a) == IF a \in DOMAIN mem THEN mem[a] ELSE 0

MemSet(mem, a, b) ==
    [x \in (IF b = 0 THEN DOMAIN mem \ {a} ELSE DOMAIN mem \cup {a}) |->
        IF x = a THEN b ELSE mem[x]]

\* Option<bool> of octopt::Quirks
None == "None"
SomeTrue == "Some(true)"
SomeFalse == "Some(false)"

ErrPop == "Attempted pop from empty stack"
ErrStack == "Stack limit exceeded"
ErrMachineCode == "Machine code is not supported"
ErrExit == "Interpreter exited"
ErrPlane == "XO-CHIP currently only supports 3 planes"
ErrDecode == "Unknown opcode"
Panic == "Panic"

Fail(c, msg) == [c EXCEPT !.res = msg]

Nib(opcode, k) == (opcode \div (16 ^ (3 - k))) % 16

\* decasm's Instruction::try_from(u16), by the opcode table.  CXKK (Random)
\* is left out: no program of this model holds it.
TryFrom(opcode) ==
    LET a == Nib(opcode, 0)
        x == Nib(opcode, 1)
        y == Nib(opcode, 2)
        n == Nib(opcode, 3)
        kk == opcode % 256
        nnn == opcode % 4096
    IN  CASE a = 0 /\ x = 0 /\ y = 12 -> [op |-> "ScrollDown", n |-> n]
          [] a = 0 /\ x = 0 /\ y = 13 -> [op |-> "ScrollUp", n |-> n]
          [] opcode = 224 -> [op |-> "Clear"]
          [] opcode = 238 -> [op |-> "Return"]
          [] opcode = 251 -> [op |-> "ScrollRight"]
          [] opcode = 252 -> [op |-> "ScrollLeft"]
          [] opcode = 253 -> [op |-> "Exit"]
          [] opcode = 254 -> [op |-> "LoRes"]
          [] opcode = 255 -> [op |-> "HiRes"]
          [] a = 0 /\ ~(x = 0 /\ y \in {12, 13}) /\ opcode \notin {224, 238, 251, 252, 253, 254, 255}
                -> [op |-> "CallMachineCode", nnn |-> nnn]
          [] a = 1 -> [op |-> "Jump", nnn |-> nnn]
          [] a = 2 -> [op |-> "Call", nnn |-> nnn]
          [] a = 3 -> [op |-> "SkipIfEqual", x |-> x, kk |-> kk]
          [] a = 4 -> [op |-> "SkipIfNotEqual", x |-> x, kk |-> kk]
          [] a = 5 /\ n = 0 -> [op |-> "SkipIfEqualReg", x |-> x, y |-> y]
          [] a = 5 /\ n = 2 -> [op |-> "StoreRange", x |-> x, y |-> y]
          [] a = 5 /\ n = 3 -> [op |-> "LoadRange", x |-> x, y |-> y]
          [] a = 6 -> [op |-> "Set", x |-> x, kk |-> kk]
          [] a = 7 -> [op |-> "Add", x |-> x, kk |-> kk]
          [] a = 8 /\ n = 0 -> [op |-> "SetReg", x |-> x, y |-> y]
          [] a = 8 /\ n = 1 -> [op |-> "Or", x |-> x, y |-> y]
          [] a = 8 /\ n = 2 -> [op |-> "And", x |-> x, y |-> y]
          [] a = 8 /\ n = 3 -> [op |-> "Xor", x |-> x, y |-> y]
          [] a = 8 /\ n = 4 -> [op |-> "AddReg", x |-> x, y |-> y]
          [] a = 8 /\ n = 5 -> [op |-> "Sub", x |-> x, y |-> y]
          [] a = 8 /\ n = 6 -> [op |-> "ShiftRight", x |-> x, y |-> y]
          [] a = 8 /\ n = 7 -> [op |-> "SubReverse", x |-> x, y |-> y]
          [] a = 8 /\ n = 14 -> [op |-> "ShiftLeft", x |-> x, y |-> y]
          [] a = 9 /\ n = 0 -> [op |-> "SkipIfNotEqualReg", x |-> x, y |-> y]
          [] a = 10 -> [op |-> "SetIndex", nnn |-> nnn]
          [] a = 11 -> [op |-> "JumpRelative", nnn |-> nnn]
          [] a = 13 -> [op |-> "Draw", x |-> x, y |-> y, n |-> n]
          [] a = 14 /\ kk = 158 -> [op |-> "SkipKey", x |-> x]
          [] a = 14 /\ kk = 161 -> [op |-> "SkipNotKey", x |-> x]
          [] opcode = 61440 -> [op |-> "SetIndexLong"]
          [] a = 15 /\ kk = 1 -> [op |-> "SelectPlane", n |-> x]
          [] opcode = 61442 -> [op |-> "SoundStuff"]
          [] a = 15 /\ kk = 7 -> [op |-> "LoadDelay", x |-> x]
          [] a = 15 /\ kk = 10 -> [op |-> "BlockKey", x |-> x]
          [] a = 15 /\ kk = 21 -> [op |-> "SetDelay", x |-> x]
          [] a = 15 /\ kk = 24 -> [op |-> "SetSound", x |-> x]
          [] a = 15 /\ kk = 30 -> [op |-> "AddRegisterToIndex", x |-> x]
          [] a = 15 /\ kk = 41 -> [op |-> "FontCharacter", x |-> x]
          [] a = 15 /\ kk = 48 -> [op |-> "BigFontCharacter", x |-> x]
          [] a = 15 /\ kk = 51 -> [op |-> "Bcd", x |-> x]
          [] a = 15 /\ kk = 58 -> [op |-> "SoundStuffTwo", x |-> x]
          [] a = 15 /\ kk = 85 -> [op |-> "Store", x |-> x]
          [] a = 15 /\ kk = 101 -> [op |-> "Load", x |-> x]
          [] a = 15 /\ kk = 117 -> [op |-> "StoreFlags", x |-> x]
          [] a = 15 /\ kk = 133 -> [op |-> "LoadFlags", x |-> x]
          [] OTHER -> [op |-> "Err"]

\* The 16-bit word at pc, big-endian; pc moves on by 2, wrapping.
fetch(c) ==
    [ chip |-> [c EXCEPT !.pc = Wrap16(c.pc + 2)],
      opcode |-> MemAt(c.memory, c.pc) * 256 + MemAt(c.memory, Wrap16(c.pc + 1)) ]

\* decode fetches the immediate of SetIndexLong itself and hands back SetIndex.
decode(c, opcode) ==
    LET ins == TryFrom(opcode)
    IN  IF ins.op = "Err"
        THEN [ chip |-> c, ok |-> FALSE, instruction |-> ins ]
        ELSE IF ins.op = "SetIndexLong"
             THEN [ chip |-> fetch(c).chip, ok |-> TRUE,
                    instruction |-> [op |-> "SetIndex", nnn |-> fetch(c).opcode] ]
             ELSE [ chip |-> c, ok |-> TRUE, instruction |-> ins ]

\* skip as it would be if it never looked at the word it passes.
skip_NoLong(c) == fetch(c).chip

skip(c) ==
    LET f == fetch(c)
        d == decode(f.chip, f.opcode)
    IN  IF d.ok /\ d.instruction.op = "SetIndexLong"
        THEN fetch(d.chip).chip
        ELSE d.chip

-----------------------------------------------------------------------------
(* Chip8::execute, one operator per arm of its match.                      *)

\* Return as it would be if it forgot to pop.
Return_KeepsSp(c) ==
    IF c.sp = 0 THEN Fail(c, ErrPop)
    ELSE IF c.sp > StackLen - 1 THEN Fail(c, Panic)
    ELSE [c EXCEPT !.pc = c.stack[c.sp]]

Return(c) ==
    IF c.sp = 0 THEN Fail(c, ErrPop)
    ELSE IF c.sp > StackLen - 1 THEN Fail(c, Panic)
    ELSE [c EXCEPT !.pc = c.stack[c.sp], !.sp = c.sp - 1]

\* sp is incremented before the check, and stays incremented when the check fails.
Call(c, nnn) ==
    IF c.sp + 1 >= StackLen
    THEN Fail([c EXCEPT !.sp = c.sp + 1], ErrStack)
    ELSE [c EXCEPT !.sp = c.sp + 1, !.stack[c.sp + 1] = c.pc, !.pc = nnn]

Jump(c, nnn) == [c EXCEPT !.pc = nnn]

JumpRelative(c, nnn) ==
    LET jump_register == IF c.options.quirks.jump0 = SomeTrue
                         THEN c.v[(nnn \div 256) % 16]
                         ELSE c.v[0]
    IN  [c EXCEPT !.pc = jump_register + nnn]

SkipIf(c, cond) == IF cond THEN skip(c) ELSE c

ToggleLoadStoreQuirk(c) ==
    [c EXCEPT !.options.quirks.load_store =
        IF c.options.quirks.load_store = SomeTrue THEN SomeFalse ELSE SomeTrue]

ScrollUp(c, n) ==
    LET r == scroll_up(c.display, n)
    IN  IF r.panic THEN Fail([c EXCEPT !.display = r.d], Panic)
        ELSE [c EXCEPT !.display = r.d]

AddReg(c, x, y) ==
    LET v1 == [c.v EXCEPT ![15] = IF c.v[x] + c.v[y] > 255 THEN 1 ELSE 0]
    IN  [c EXCEPT !.v = [v1 EXCEPT ![x] = Wrap8(v1[x] + v1[y])]]

Sub(c, x, y) ==
    LET v1 == [c.v EXCEPT ![15] = IF c.v[x] < c.v[y] THEN 0 ELSE 1]
    IN  [c EXCEPT !.v = [v1 EXCEPT ![x] = Wrap8(v1[x] - v1[y] + 256)]]

SubReverse(c, x, y) ==
    LET v1 == [c.v EXCEPT ![15] = IF c.v[y] < c.v[x] THEN 0 ELSE 1]
    IN  [c EXCEPT !.v = [v1 EXCEPT ![x] = Wrap8(v1[y] - v1[x] + 256)]]

ShiftOperand(c, x, y) ==
    IF c.options.quirks.shift = SomeTrue THEN c.v[x] ELSE c.v[y]

\* The arm of Instruction::ShiftLeft: operand & 1 and operand >> 1.
ShiftLeft(c, x, y) ==
    LET operand == ShiftOperand(c, x, y)
        v1 == [c.v EXCEPT ![15] = operand % 2]
    IN  [c EXCEPT !.v = [v1 EXCEPT ![x] = operand \div 2]]

\* The arm of Instruction::ShiftRight: (operand & 0x80) >> 7 and operand << 1.
ShiftRight(c, x, y) ==
    LET operand == ShiftOperand(c, x, y)
        v1 == [c.v EXCEPT ![15] = operand \div 128]
    IN  [c EXCEPT !.v = [v1 EXCEPT ![x] = Wrap8(operand * 2)]]

\* (byte << (x % 8)) >> 7 on u8: bit 7 - k of byte
SpriteBit(byte, k) == (byte \div (2 ^ (7 - k))) % 2

\* A row of width pixels read from address on; the second byte of a 16-wide
\* row is read from address + 1.
SpriteRow(mem, address, width) ==
    [k \in 1..width |->
        SpriteBit(MemAt(mem, Wrap16(address + ((k - 1) \div 8))), (k - 1) % 8)]

\* height rows, each taking width / 8 bytes, from address on.
Sprite(mem, address, width, height) ==
    [r \in 1..height |-> SpriteRow(mem, Wrap16(address + (r - 1) * (width \div 8)), width)]

\* The body of `for color in 1..=2` for one color: st is [chip, address].
DrawColor(st, active_plane, color, width, height, x, y) ==
    IF BitAnd(active_plane, color) # 0
    THEN LET c == st.chip
             r == draw([c.display EXCEPT !.active_plane = color],
                       Sprite(c.memory, st.address, width, height),
                       c.v[x], c.v[y])
         IN  [ chip |-> [c EXCEPT !.display = r.d, !.v[15] = r.collision],
               address |-> Wrap16(st.address + height * (width \div 8)) ]
    ELSE st

Draw(c, x, y, n) ==
    LET big == c.display.hires \/ c.options.quirks.lores_dxy0 = "BigSprite"
        tall == c.options.quirks.lores_dxy0 = "TallSprite"
        width == IF n = 0 /\ big THEN 16 ELSE 8
        height == IF n = 0 THEN 16 ELSE n
        active_plane == c.display.active_plane
        st1 == DrawColor([chip |-> c, address |-> c.i], active_plane, 1,
                         width, height, x, y)
        st2 == DrawColor(st1, active_plane, 2, width, height, x, y)
    IN  IF n = 0 /\ ~big /\ ~tall THEN c
        ELSE [st2.chip EXCEPT !.display.active_plane = active_plane]

\* keyboard[usize::from(v[x])]: an index above 15 panics.
SkipKey(c, x, want) ==
    IF c.v[x] > 15 THEN Fail(c, Panic)
    ELSE SkipIf(c, c.keyboard[c.v[x]] = want)

\* BlockKey as it would be if it stepped back only while it waits.
BlockKey_SkipsNext(c, x) ==
    LET pressed == {k \in 0..15 : c.keyboard[k]}
    IN  IF pressed = {} THEN [c EXCEPT !.pc = Wrap16(c.pc + 65536 - 2)]
        ELSE LET key == CHOOSE k \in pressed : \A j \in pressed : k <= j
             IN  [skip([c EXCEPT !.v[x] = key]) EXCEPT !.keyboard[key] = FALSE]

BlockKey(c, x) ==
    LET back == [c EXCEPT !.pc = Wrap16(c.pc + 65536 - 2)]
        pressed == {k \in 0..15 : c.keyboard[k]}
    IN  IF pressed = {} THEN back
        ELSE LET key == CHOOSE k \in pressed : \A j \in pressed : k <= j
             IN  [skip([back EXCEPT !.v[x] = key]) EXCEPT !.keyboard[key] = FALSE]

\* SelectPlane as it would be without the check of n.
SelectPlane_NoCheck(c, n) == [c EXCEPT !.display = plane(c.display, n)]

SelectPlane(c, n) ==
    IF n > 3 THEN Fail(c, ErrPlane) ELSE [c EXCEPT !.display = plane(c.display, n)]

\* v[x] * 5 and v[x] * 10 are u8 products: a build with overflow checks
\* panics when they pass 255, another wraps.
FontCharacter(c, x, base, size) ==
    IF c.v[x] * size > 255 /\ overflow_checks THEN Fail(c, Panic)
    ELSE [c EXCEPT !.i = base + Wrap8(c.v[x] * size)]

\* memory[i], memory[i as usize + 1], memory[i as usize + 2]: the index is
\* not wrapped, and one beyond 65535 panics after the earlier writes.
Bcd(c, x) ==
    LET vx == c.v[x]
        m0 == MemSet(c.memory, c.i, vx \div 100)
        m1 == MemSet(m0, c.i + 1, (vx \div 10) % 10)
        m2 == MemSet(m1, c.i + 2, vx % 10)
    IN  IF c.i + 1 > MemLen - 1 THEN Fail([c EXCEPT !.memory = m0], Panic)
        ELSE IF c.i + 2 > MemLen - 1 THEN Fail([c EXCEPT !.memory = m1], Panic)
        ELSE [c EXCEPT !.memory = m2]

\* memory[i + k] <- v[regs[k + 1]], the address wrapping.
RECURSIVE StoreRegs(_, _, _, _)
StoreRegs(mem, a, v0, regs) ==
    IF regs = << >> THEN mem
    ELSE StoreRegs(MemSet(mem, a, v0[Head(regs)]), Wrap16(a + 1), v0, Tail(regs))

RECURSIVE LoadRegs(_, _, _, _)
LoadRegs(v0, mem, a, regs) ==
    IF regs = << >> THEN v0
    ELSE LoadRegs([v0 EXCEPT ![Head(regs)] = MemAt(mem, a)], mem, Wrap16(a + 1),
                  Tail(regs))

\* x..=y when x <= y, else (y..=x).rev()
RegRange(x, y) ==
    IF x <= y THEN [k \in 1..(y - x + 1) |-> x + k - 1]
    ELSE [k \in 1..(x - y + 1) |-> x - k + 1]

\* Store as it would be if it moved i whatever the quirk says.
Store_IgnoresQuirk(c, x) ==
    [c EXCEPT !.memory = StoreRegs(c.memory, c.i, c.v, RegRange(0, x)),
              !.i = Wrap16(c.i + x + 1)]

Store(c, x) ==
    LET m == StoreRegs(c.memory, c.i, c.v, RegRange(0, x))
    IN  IF c.options.quirks.load_store # SomeTrue
        THEN [c EXCEPT !.memory = m, !.i = Wrap16(c.i + x + 1)]
        ELSE [c EXCEPT !.memory = m]

Load(c, x) ==
    LET w == LoadRegs(c.v, c.memory, c.i, RegRange(0, x))
    IN  IF c.options.quirks.load_store # SomeTrue
        THEN [c EXCEPT !.v = w, !.i = Wrap16(c.i + x + 1)]
        ELSE [c EXCEPT !.v = w]

StoreRange(c, x, y) ==
    [c EXCEPT !.memory = StoreRegs(c.memory, c.i, c.v, RegRange(x, y))]

LoadRange(c, x, y) ==
    [c EXCEPT !.v = LoadRegs(c.v, c.memory, c.i, RegRange(x, y))]

StoreFlags(c, x) ==
    [c EXCEPT !.flags = [n \in Reg |-> IF n <= x THEN c.v[n] ELSE c.flags[n]]]

LoadFlags(c, x) ==
    [c EXCEPT !.v = [n \in Reg |-> IF n <= x THEN c.flags[n] ELSE c.v[n]]]

execute(c, ins) ==
    CASE ins.op = "Exit" -> Fail(c, ErrExit)
      [] ins.op = "ScrollUp" -> ScrollUp(c, ins.n)
      [] ins.op = "ScrollDown" -> [c EXCEPT !.display = scroll_down(c.display, ins.n)]
      [] ins.op = "Clear" -> [c EXCEPT !.display = clear(c.display, FALSE)]
      [] ins.op = "Return" -> Return(c)
      [] ins.op = "ToggleLoadStoreQuirk" -> ToggleLoadStoreQuirk(c)
      [] ins.op = "ScrollRight" ->
            [c EXCEPT !.display = scroll_right(c.display, ScrollPixels)]
      [] ins.op = "ScrollLeft" ->
            [c EXCEPT !.display = scroll_left(c.display, ScrollPixels)]
      [] ins.op = "LoRes" ->
            [c EXCEPT !.display = lores(c.display, c.options.quirks.res_clear = SomeTrue)]
      [] ins.op = "HiRes" ->
            [c EXCEPT !.display = hires(c.display, c.options.quirks.res_clear = SomeTrue)]
      [] ins.op = "CallMachineCode" -> Fail(c, ErrMachineCode)
      [] ins.op = "Jump" -> Jump(c, ins.nnn)
      [] ins.op = "Call" -> Call(c, ins.nnn)
      [] ins.op = "SkipIfEqual" -> SkipIf(c, c.v[ins.x] = ins.kk)
      [] ins.op = "SkipIfNotEqual" -> SkipIf(c, c.v[ins.x] # ins.kk)
      [] ins.op = "SkipIfEqualReg" -> SkipIf(c, c.v[ins.x] = c.v[ins.y])
      [] ins.op = "Set" -> [c EXCEPT !.v[ins.x] = ins.kk]
      [] ins.op = "Add" -> [c EXCEPT !.v[ins.x] = Wrap8(c.v[ins.x] + ins.kk)]
      [] ins.op = "SetReg" -> [c EXCEPT !.v[ins.x] = c.v[ins.y]]
      [] ins.op = "Or" -> [c EXCEPT !.v[ins.x] = BitOr(c.v[ins.x], c.v[ins.y])]
      [] ins.op = "And" -> [c EXCEPT !.v[ins.x] = BitAnd(c.v[ins.x], c.v[ins.y])]
      [] ins.op = "Xor" -> [c EXCEPT !.v[ins.x] = BitXor(c.v[ins.x], c.v[ins.y])]
      [] ins.op = "AddReg" -> AddReg(c, ins.x, ins.y)
      [] ins.op = "Sub" -> Sub(c, ins.x, ins.y)
      [] ins.op = "ShiftLeft" -> ShiftLeft(c, ins.x, ins.y)
      [] ins.op = "SubReverse" -> SubReverse(c, ins.x, ins.y)
      [] ins.op = "ShiftRight" -> ShiftRight(c, ins.x, ins.y)
      [] ins.op = "SkipIfNotEqualReg" -> SkipIf(c, c.v[ins.x] # c.v[ins.y])
      [] ins.op = "SetIndex" -> [c EXCEPT !.i = ins.nnn]
      [] ins.op = "JumpRelative" -> JumpRelative(c, ins.nnn)
      [] ins.op = "Draw" -> Draw(c, ins.x, ins.y, ins.n)
      [] ins.op = "SkipKey" -> SkipKey(c, ins.x, TRUE)
      [] ins.op = "SkipNotKey" -> SkipKey(c, ins.x, FALSE)
      [] ins.op = "SoundStuff" -> Fail(c, Panic)
      [] ins.op = "LoadDelay" -> [c EXCEPT !.v[ins.x] = c.delay]
      [] ins.op = "BlockKey" -> BlockKey(c, ins.x)
      [] ins.op = "SelectPlane" -> SelectPlane(c, ins.n)
      [] ins.op = "SoundStuffTwo" -> Fail(c, Panic)
      [] ins.op = "SetDelay" -> [c EXCEPT !.delay = c.v[ins.x]]
      [] ins.op = "SetSound" -> [c EXCEPT !.sound = c.v[ins.x]]
      [] ins.op = "AddRegisterToIndex" -> [c EXCEPT !.i = Wrap16(c.i + c.v[ins.x])]
      [] ins.op = "FontCharacter" -> FontCharacter(c, ins.x, 80, 5)
      [] ins.op = "BigFontCharacter" -> FontCharacter(c, ins.x, 160, 10)
      [] ins.op = "Bcd" -> Bcd(c, ins.x)
      [] ins.op = "Store" -> Store(c, ins.x)
      [] ins.op = "Load" -> Load(c, ins.x)
      [] ins.op = "StoreRange" -> StoreRange(c, ins.x, ins.y)
      [] ins.op = "LoadRange" -> LoadRange(c, ins.x, ins.y)
      [] ins.op = "StoreFlags" -> StoreFlags(c, ins.x)
      [] ins.op = "LoadFlags" -> LoadFlags(c, ins.x)
      [] ins.op = "SetIndexLong" ->
            [fetch(c).chip EXCEPT !.i = fetch(c).opcode]

-----------------------------------------------------------------------------
(* Chip8::run.                                                             *)

\* The timers, once per call.
\* The timers as they would be if they went down past 0.
Timers_Wraps(c) ==
    [c EXCEPT !.delay = IF c.options.quirks.delay_wrap # SomeTrue
                        THEN (c.delay + 255) % 256 ELSE c.delay,
              !.sound = (c.sound + 255) % 256]

Timers(c) ==
    [c EXCEPT !.delay = IF c.options.quirks.delay_wrap # SomeTrue /\ c.delay > 0
                        THEN c.delay - 1 ELSE c.delay,
              !.sound = IF c.sound > 0 THEN c.sound - 1 ELSE c.sound]

\* One pass of `for _ in 0..tickrate`: fetch, decode, execute.  The record
\* that comes back has res # "Ok" when decode or execute failed, and the
\* instruction it reached in trace.
Tick(c) ==
    LET f == fetch(c)
        d == decode(f.chip, f.opcode)
        entry == [addr |-> c.pc, opcode |-> f.opcode]
    IN  IF ~d.ok
        THEN Fail([d.chip EXCEPT !.trace = Append(c.trace, entry)], ErrDecode)
        ELSE [execute(d.chip, d.instruction) EXCEPT !.trace = Append(c.trace, entry)]

IsDrawOpcode(opcode) == opcode \in 53248..57343

\* The loop of run as it would be without the vblank break.
RECURSIVE RunLoop_NoBreak(_, _)
RunLoop_NoBreak(c, ticks) ==
    IF ticks = 0 THEN c
    ELSE LET t == Tick(c)
         IN  IF t.res # "Ok" THEN t ELSE RunLoop_NoBreak(t, ticks - 1)

\* The loop of run as it would be if an error did not end it.
RECURSIVE RunLoop_NoStop(_, _)
RunLoop_NoStop(c, ticks) ==
    IF ticks = 0 THEN c
    ELSE LET t == Tick(c)
         IN  IF t.options.quirks.vblank = SomeTrue
                /\ IsDrawOpcode(t.trace[Len(t.trace)].opcode)
             THEN t
             ELSE RunLoop_NoStop(t, ticks - 1)

RECURSIVE RunLoop(_, _)
RunLoop(c, ticks) ==
    IF ticks = 0 THEN c
    ELSE LET t == Tick(c)
         IN  IF t.res # "Ok" THEN t
             ELSE IF t.options.quirks.vblank = SomeTrue
                     /\ IsDrawOpcode(t.trace[Len(t.trace)].opcode)
                  THEN t
                  ELSE RunLoop(t, ticks - 1)

run(c, tickrate) == RunLoop(Timers(c), tickrate)

-----------------------------------------------------------------------------
(* The host.  It constructs the interpreter, may load a program, and then  *)
(* calls the public methods of Chip8 and Display; after a panic it calls   *)
(* nothing more.  last and before record its last two calls, each with the *)
(* state the call started from.                                            *)

DefaultQuirks ==
    [ shift |-> None, load_store |-> None, jump0 |-> None, logic |-> None,
      vblank |-> None, res_clear |-> None, delay_wrap |-> None,
      lores_dxy0 |-> "None" ]

\* Chip8::new, then read_rom; rom is the program as a sparse memory image.
\* The font bytes come from octopt and are not written here: no program of
\* this model reads the font area.
New(quirks, rom) ==
    [ pc |-> StartAddress, sp |-> 0, stack |-> [k \in 0..(StackLen - 1) |-> 0],
      memory |-> rom, i |-> 0, v |-> [k \in Reg |-> 0], flags |-> [k \in Reg |-> 0],
      delay |-> 0, sound |-> 0, display |-> NewDisplay,
      options |-> [quirks |-> quirks], keyboard |-> [k \in Reg |-> FALSE],
      res |-> "Ok", trace |-> << >> ]

\* The interpreter as the operators above take it.
Chip ==
    [ pc |-> pc, sp |-> sp, stack |-> stack, memory |-> memory, i |-> i, v |-> v,
      flags |-> flags, delay |-> delay, sound |-> sound, display |-> display,
      options |-> options, keyboard |-> keyboard, res |-> result, trace |-> trace ]

\* The interpreter at the start of a call.
Begin == [Chip EXCEPT !.res = "Ok", !.trace = << >>]

\* The interpreter c in a build with (debug) or without (release) overflow
\* checks.
InitBuild(c, checks) ==
    /\ pc = c.pc /\ sp = c.sp /\ stack = c.stack /\ memory = c.memory
    /\ i = c.i /\ v = c.v /\ flags = c.flags /\ delay = c.delay
    /\ sound = c.sound /\ display = c.display /\ options = c.options
    /\ keyboard = c.keyboard /\ result = c.res /\ trace = c.trace
    /\ overflow_checks = checks
    /\ last = [call |-> [fn |-> "new"], pre |-> c]
    /\ before = [call |-> [fn |-> "new"], pre |-> c]
    /\ ops = 0

\* No instruction of the programs started this way multiplies.
InitWith(c) == InitBuild(c, FALSE)

\* The call `call` has left the interpreter as c.
Commit(c, call) ==
    /\ result # Panic
    /\ pc' = c.pc /\ sp' = c.sp /\ stack' = c.stack /\ memory' = c.memory
    /\ i' = c.i /\ v' = c.v /\ flags' = c.flags /\ delay' = c.delay
    /\ sound' = c.sound /\ display' = c.display /\ options' = c.options
    /\ keyboard' = c.keyboard /\ result' = c.res /\ trace' = c.trace
    /\ last' = [call |-> call, pre |-> Chip]
    /\ before' = last
    /\ UNCHANGED overflow_checks

\* chip8.execute(ins)
Execute(ins) == Commit(execute(Begin, ins), [fn |-> "execute", ins |-> ins])

\* chip8.run(tickrate)
Run(tickrate) == Commit(run(Begin, tickrate), [fn |-> "run", tickrate |-> tickrate])

-----------------------------------------------------------------------------
(* The call stack: CALL and RETURN executed in any order.                  *)

\* sp grows with every CALL, failed ones too; the host stops calling at MaxSp.
MaxSp == 18

CallTargets == {768}

ExecuteCall ==
    \E nnn \in CallTargets :
        sp < MaxSp /\ Execute([op |-> "Call", nnn |-> nnn]) /\ UNCHANGED ops

ExecuteReturn == Execute([op |-> "Return"]) /\ UNCHANGED ops

InitStack == InitWith(New(DefaultQuirks, << >>))

NextStack == ExecuteCall \/ ExecuteReturn

SpecStack == InitStack /\ [][NextStack]_vars

IsExec(h, op) == h.call.fn = "execute" /\ h.call.ins.op = op

\* C1: after every successfully executed instruction sp is in 0..16, every
\* stack[sp] that CALL or RETURN indexes is one of the 16 slots (no index
\* panic), and RETURN at sp = 0 gives the pop-from-empty-stack error and
\* leaves sp and the stack as they were.
C1_StackIndexInBounds ==
    /\ result = "Ok" => sp \in 0..StackLen
    /\ result # Panic
    /\ IsExec(last, "Return") /\ last.pre.sp = 0 =>
          result = ErrPop /\ sp = 0 /\ stack = last.pre.stack

\* C2: a CALL that succeeds, followed at once by RETURN, leaves pc at the
\* pc the CALL was executed with (the address after the CALL) and sp at its
\* value before the CALL.
C2_CallThenReturn ==
    IsExec(before, "Call") /\ last.pre.res = "Ok" /\ IsExec(last, "Return") =>
        result = "Ok" /\ pc = before.pre.pc /\ sp = before.pre.sp

C2_Witness ==
    /\ IsExec(before, "Call") /\ last.pre.res = "Ok" /\ IsExec(last, "Return")
    /\ before.pre.pc # last.pre.pc
    /\ pc = before.pre.pc

\* C3: the stack holds 16 return addresses: a CALL succeeds whenever fewer
\* than 16 are stacked and fails with "Stack limit exceeded" only when 16 are.
C3_StackDepth16 ==
    IsExec(last, "Call") =>
        /\ last.pre.sp < StackLen => result = "Ok"
        /\ result = ErrStack => last.pre.sp >= StackLen

-----------------------------------------------------------------------------
(* The display: the host calls the public methods of chip8.display, and    *)
(* unsets dirty after it has read the buffer.                              *)

\* The host makes at most MaxDisplayOps calls.
MaxDisplayOps == 3

\* Sprites as Display::draw takes them: rows of pixels, each 0 or 1.
Dot == << <<1, 0, 0, 0, 0, 0, 0, 0>> >>

Corner == << <<1, 1, 0, 0, 0, 0, 0, 0>>, <<1, 0, 0, 0, 0, 0, 0, 0>> >>

DisplaySprites == {Dot, Corner}

DisplayXs == {0, 62}

DisplayYs == {0, 31}

VerticalScrolls == {0, 1}

HorizontalScrolls == {0, 4}

Planes == 0..3

\* A call of a method of chip8.display that left the display as d.
DisplayCall(d, panicked, call) ==
    /\ ops < MaxDisplayOps
    /\ ops' = ops + 1
    /\ Commit([Begin EXCEPT !.display = d,
                            !.res = IF panicked THEN Panic ELSE "Ok"], call)

DisplayClear ==
    \E all_planes \in BOOLEAN :
        DisplayCall(clear(display, all_planes), FALSE,
                    [fn |-> "clear", all_planes |-> all_planes])

DisplayDraw ==
    \E sprite \in DisplaySprites, x \in DisplayXs, y \in DisplayYs :
        LET r == draw(display, sprite, x, y)
        IN  DisplayCall(r.d, FALSE,
                        [fn |-> "draw", sprite |-> sprite, x |-> x, y |-> y,
                         ret |-> r.collision])

DisplayScrollUp ==
    \E n \in VerticalScrolls :
        LET r == scroll_up(display, n)
        IN  DisplayCall(r.d, r.panic, [fn |-> "scroll_up", pixels |-> n])

DisplayScrollDown ==
    \E n \in VerticalScrolls :
        DisplayCall(scroll_down(display, n), FALSE, [fn |-> "scroll_down", pixels |-> n])

DisplayScrollLeft ==
    \E n \in HorizontalScrolls :
        DisplayCall(scroll_left(display, n), FALSE, [fn |-> "scroll_left", pixels |-> n])

DisplayScrollRight ==
    \E n \in HorizontalScrolls :
        DisplayCall(scroll_right(display, n), FALSE, [fn |-> "scroll_right", pixels |-> n])

DisplayPlane ==
    \E n \in Planes : DisplayCall(plane(display, n), FALSE, [fn |-> "plane", plane |-> n])

DisplayHires ==
    \E clr \in BOOLEAN : DisplayCall(hires(display, clr), FALSE, [fn |-> "hires", clear |-> clr])

DisplayLores ==
    \E clr \in BOOLEAN : DisplayCall(lores(display, clr), FALSE, [fn |-> "lores", clear |-> clr])

\* The frontend has read the buffer: chip8.display.dirty = false.
HostResetDirty ==
    /\ display.dirty
    /\ DisplayCall([display EXCEPT !.dirty = FALSE], FALSE, [fn |-> "reset_dirty"])

InitDisplay == InitWith(New(DefaultQuirks, << >>))

NextDisplay ==
    \/ DisplayClear
    \/ DisplayDraw
    \/ DisplayScrollUp
    \/ DisplayScrollDown
    \/ DisplayScrollLeft
    \/ DisplayScrollRight
    \/ DisplayPlane
    \/ DisplayHires
    \/ DisplayLores
    \/ HostResetDirty

SpecDisplay == InitDisplay /\ [][NextDisplay]_vars

\* Every cell of the width x height region of d holds 0.
DefinedZero(d) ==
    \A c \in DOMAIN d.display : ~(c[1] < d.height /\ c[2] < d.width)

\* C4: display.clear is true exactly when every cell of the width x height
\* region is 0, in all planes.
C4_ClearIffAllZero == display.clear <=> DefinedZero(display)

\* C5: after a call that changed a cell of the buffer or switched the
\* resolution mode dirty is true, and only the host sets dirty to false.
C5_DirtyAfterChange ==
    /\ \/ display.display # last.pre.display.display
       \/ display.hires # last.pre.display.hires
       => display.dirty
    /\ last.pre.display.dirty /\ last.call.fn # "reset_dirty" => display.dirty

\* The active-plane bits of every defined cell <<y, x>> of now are those of
\* cell <<y + dy, x + dx>> of was when that cell is on the screen, and 0
\* otherwise.  Only cells that hold a value now, or whose source held one,
\* can differ from that, so those are the cells compared.
IsShift(was, now, dy, dx) ==
    LET p == was.active_plane
        onscreen(y, x) == y \in 0..(was.height - 1) /\ x \in 0..(was.width - 1)
        cells == DOMAIN now.display
                   \cup { <<c[1] - dy, c[2] - dx>> : c \in DOMAIN was.display }
    IN  \A c \in cells :
            onscreen(c[1], c[2]) =>
                BitAnd(Px(now.display, c[1], c[2]), p) =
                    IF onscreen(c[1] + dy, c[2] + dx)
                    THEN BitAnd(Px(was.display, c[1] + dy, c[2] + dx), p)
                    ELSE 0

IsScroll(h) == h.call.fn \in {"scroll_up", "scroll_down", "scroll_left", "scroll_right"}

\* C8: a scroll by n > 0 pixels with clear = false is a pure shift of the
\* active plane: scroll_up(n) leaves in each defined cell (x, y) the bits of
\* (x, y + n), or 0 when y + n is off screen, and likewise scroll_down,
\* scroll_left and scroll_right.
C8_ScrollIsShift ==
    IsScroll(last) /\ last.call.pixels > 0 /\ ~last.pre.display.clear =>
        LET n == last.call.pixels
        IN  /\ result = "Ok"
            /\ last.call.fn = "scroll_up" => IsShift(last.pre.display, display, n, 0)
            /\ last.call.fn = "scroll_down" => IsShift(last.pre.display, display, 0 - n, 0)
            /\ last.call.fn = "scroll_left" => IsShift(last.pre.display, display, 0, n)
            /\ last.call.fn = "scroll_right" => IsShift(last.pre.display, display, 0, 0 - n)

-----------------------------------------------------------------------------
(* Drawing: the host draws sprites, in either mode and with any plane      *)
(* selected, on an empty screen or over a sprite drawn in another plane.   *)

\* The host draws at most MaxDraws sprites.
MaxDraws == 2

\* 8 wide, 5 rows
Glyph ==
    << <<1, 1, 1, 1, 1, 1, 1, 1>>,
       <<1, 0, 0, 0, 0, 0, 0, 1>>,
       <<1, 0, 1, 1, 0, 1, 0, 1>>,
       <<1, 0, 0, 0, 0, 0, 0, 1>>,
       <<1, 1, 1, 1, 1, 1, 1, 1>> >>

\* 16 wide, 16 rows, every pixel set
Block == [r \in 1..16 |-> [k \in 1..16 |-> 1]]

\* 8 wide, 1 row, no pixel set
Blank == << <<0, 0, 0, 0, 0, 0, 0, 0>> >>

DrawSprites == {Glyph, Block, Blank}

\* 61 is width - 3 in lores and leaves room for any sprite in hires; 255 is
\* beyond the screen in both modes.
DrawXs == {61, 255}

\* 30 is height - 2 in lores and leaves room for any sprite in hires; 255 is
\* beyond the screen in both modes.
DrawYs == {30, 255}

\* The planes the earlier sprite may have been drawn in: none, or plane 2.
BackgroundPlanes == {0, 2}

\* The display after new(), hires(false) or not, a Glyph drawn at (60, 28)
\* with plane bg selected, and plane(p).
DrawStart(hi, bg, p) ==
    LET moded == IF hi THEN hires(NewDisplay, FALSE) ELSE NewDisplay
    IN  plane(draw(plane(moded, bg), Glyph, 60, 28).d, p)

InitDraw ==
    \E hi \in BOOLEAN, bg \in BackgroundPlanes, p \in Planes :
        InitWith([New(DefaultQuirks, << >>) EXCEPT !.display = DrawStart(hi, bg, p)])

HostDraw ==
    \E sprite \in DrawSprites, x \in DrawXs, y \in DrawYs :
        LET r == draw(display, sprite, x, y)
        IN  /\ ops < MaxDraws
            /\ ops' = ops + 1
            /\ Commit([Begin EXCEPT !.display = r.d],
                      [fn |-> "draw", sprite |-> sprite, x |-> x, y |-> y,
                       ret |-> r.collision])

NextDraw == HostDraw

SpecDraw == InitDraw /\ [][NextDraw]_vars

\* No cell of d holds a bit of d's active plane.
PlaneCleared(d) == \A c \in DOMAIN d.display : BitAnd(d.display[c], d.active_plane) = 0

SameDrawTwice ==
    /\ before.call.fn = "draw" /\ last.call.fn = "draw"
    /\ last.call.sprite = before.call.sprite
    /\ last.call.x = before.call.x
    /\ last.call.y = before.call.y

\* C6: on a display whose active plane is cleared, drawing the same sprite
\* twice at the same place returns every cell to its value before the first
\* draw; the first draw returns 0 and the second returns 1 exactly when the
\* first one lit a pixel.
C6_DrawTwiceRestores ==
    SameDrawTwice /\ PlaneCleared(before.pre.display) =>
        /\ display.display = before.pre.display.display
        /\ before.call.ret = 0
        /\ last.call.ret = 1 <=> last.pre.display.display # before.pre.display.display

\* Two draws of a sprite that is cut off at both edges, over another plane.
C6_Witness ==
    /\ SameDrawTwice /\ PlaneCleared(before.pre.display)
    /\ before.pre.display.display # << >>
    /\ last.pre.display.display # before.pre.display.display
    /\ last.call.x = 61 /\ last.call.y = 30
    /\ last.call.ret = 1

\* The cells whose value the last call changed.
Changed ==
    { c \in DOMAIN display.display \cup DOMAIN last.pre.display.display :
        Px(display.display, c[1], c[2]) # Px(last.pre.display.display, c[1], c[2]) }

\* C7: draw reduces x modulo width and y modulo height and then clips: only
\* cells (x mod width + c, y mod height + r), c and r within the sprite, with
\* column < width and row < height change.
C7_DrawModuloThenClip ==
    last.call.fn = "draw" =>
        LET d == last.pre.display
            x == last.call.x % d.width
            y == last.call.y % d.height
            rows == Len(last.call.sprite)
            cols == Len(last.call.sprite[1])
        IN  \A c \in Changed :
                /\ c[1] \in y..(y + rows - 1) /\ c[1] < d.height
                /\ c[2] \in x..(x + cols - 1) /\ c[2] < d.width

\* A 16 x 16 sprite drawn at (255, 255) in hires changes cell (127, 127 mod 64) alone.
C7_Witness ==
    /\ last.call.fn = "draw"
    /\ last.call.x = 255 /\ last.call.y = 255
    /\ last.call.sprite = Block
    /\ last.pre.display.hires
    /\ Changed = {<<63, 127>>}

-----------------------------------------------------------------------------
(* Conditional skips: the host points pc at a word, sets registers and     *)
(* keys, and executes the skip instructions.                               *)

\* Calls per history.
MaxSkipOps == 3

\* 0x200: 6005 (two bytes long).  0x300: F000 1234 (four bytes long).
\* 0x400: FFFF (no instruction).  0x600: 0000.  0xFFFE: F000, whose
\* immediate lies at 0x0000, beyond the wrap of pc.
SkipRom ==
    (512 :> 96) @@ (513 :> 5) @@ (768 :> 240) @@ (770 :> 18) @@ (771 :> 52)
    @@ (1024 :> 255) @@ (1025 :> 255) @@ (65534 :> 240)

\* 0xFFFF is odd: its word is made of the last and the first byte of memory.
SkipAddresses == {512, 768, 1024, 1536, 65534, 65535}

SkipInstructions ==
    { [op |-> "SkipIfEqual", x |-> 0, kk |-> 0],
      [op |-> "SkipIfNotEqual", x |-> 0, kk |-> 0],
      [op |-> "SkipIfEqualReg", x |-> 0, y |-> 1],
      [op |-> "SkipIfNotEqualReg", x |-> 0, y |-> 1],
      [op |-> "SkipKey", x |-> 0],
      [op |-> "SkipNotKey", x |-> 0] }

\* A write by the host to a public field of Chip8.
HostWrite(c, call) == Commit([c EXCEPT !.res = result, !.trace = trace], call)

HostSetPc ==
    /\ ops < MaxSkipOps
    /\ \E a \in SkipAddresses : HostWrite([Chip EXCEPT !.pc = a], [fn |-> "pc", value |-> a])
    /\ ops' = ops + 1

HostPressKey ==
    /\ ops < MaxSkipOps
    /\ \E k \in {0, 1} :
          HostWrite([Chip EXCEPT !.keyboard[k] = TRUE], [fn |-> "keyboard", key |-> k])
    /\ ops' = ops + 1

ExecuteSet ==
    /\ ops < MaxSkipOps
    /\ Execute([op |-> "Set", x |-> 0, kk |-> 1])
    /\ ops' = ops + 1

ExecuteSkip ==
    /\ ops < MaxSkipOps
    /\ \E ins \in SkipInstructions : Execute(ins)
    /\ ops' = ops + 1

InitSkip == InitWith(New(DefaultQuirks, SkipRom))

NextSkip == HostSetPc \/ HostPressKey \/ ExecuteSet \/ ExecuteSkip

SpecSkip == InitSkip /\ [][NextSkip]_vars

\* The 16-bit word at address a.
WordAt(mem, a) == MemAt(mem, a) * 256 + MemAt(mem, Wrap16(a + 1))

\* The call h was a conditional skip whose condition held.
SkipFires(h) ==
    /\ h.call.fn = "execute"
    /\ LET ins == h.call.ins
           r == h.pre.v
       IN  CASE ins.op = "SkipIfEqual" -> r[ins.x] = ins.kk
             [] ins.op = "SkipIfNotEqual" -> r[ins.x] # ins.kk
             [] ins.op = "SkipIfEqualReg" -> r[ins.x] = r[ins.y]
             [] ins.op = "SkipIfNotEqualReg" -> r[ins.x] # r[ins.y]
             [] ins.op = "SkipKey" -> r[ins.x] <= 15 /\ h.pre.keyboard[r[ins.x]]
             [] ins.op = "SkipNotKey" -> r[ins.x] <= 15 /\ ~h.pre.keyboard[r[ins.x]]
             [] OTHER -> FALSE

\* C9: a conditional skip that fires moves pc on by 4 when the word at pc is
\* 0xF000 and by 2 for every other word, words that are no instruction
\* included; it returns no error and changes nothing but pc.
C9_SkipAdvancesPastOne ==
    SkipFires(last) =>
        /\ result = "Ok"
        /\ pc = Wrap16(last.pre.pc
                       + (IF WordAt(last.pre.memory, last.pre.pc) = 61440 THEN 4 ELSE 2))
        /\ [Chip EXCEPT !.pc = 0, !.res = "Ok", !.trace = << >>]
             = [last.pre EXCEPT !.pc = 0, !.res = "Ok", !.trace = << >>]

\* A skip over F000 1234 at 0x300 has just fired and left pc at 0x304.
C9_Witness ==
    /\ SkipFires(last)
    /\ last.pre.pc = 768
    /\ WordAt(last.pre.memory, 768) = 61440
    /\ pc = 772

-----------------------------------------------------------------------------
(* Chip8::run with and without the vblank quirk, on programs that draw.    *)

\* Calls of run per history.
MaxRuns == 3

\* The largest tickrate the host passes.
MaxTicks == 4

\* A20A D015 7009 D011 1202, then the sprite F0 90 90 90 F0 at 0x20A:
\* two draws per round of a loop.
RomLoop ==
    (512 :> 162) @@ (513 :> 10) @@ (514 :> 208) @@ (515 :> 21)
    @@ (516 :> 112) @@ (517 :> 9) @@ (518 :> 208) @@ (519 :> 17)
    @@ (520 :> 18) @@ (521 :> 2)
    @@ (522 :> 240) @@ (523 :> 144) @@ (524 :> 144) @@ (525 :> 144) @@ (526 :> 240)

\* F000 D123 D011 D011 00FD: a long immediate that reads like a draw, two
\* draws in a row, then exit.  I = 0xD123 points at zeros.
RomExit ==
    (512 :> 240) @@ (514 :> 209) @@ (515 :> 35) @@ (516 :> 208) @@ (517 :> 17)
    @@ (518 :> 208) @@ (519 :> 17) @@ (521 :> 253)

RunRoms == {RomLoop, RomExit}

VblankSettings == {None, SomeTrue, SomeFalse}

HostRun ==
    /\ ops < MaxRuns
    /\ \E tickrate \in 0..MaxTicks : Run(tickrate)
    /\ ops' = ops + 1

InitRun ==
    \E rom \in RunRoms, vb \in VblankSettings :
        InitWith(New([DefaultQuirks EXCEPT !.vblank = vb], rom))

NextRun == HostRun

SpecRun == InitRun /\ [][NextRun]_vars

\* The positions in the last run at which a draw was executed.
DrawsOfRun == {k \in 1..Len(trace) : IsDrawOpcode(trace[k].opcode)}

\* C10: with the vblank quirk set, a run executes at most one draw, executes
\* nothing after it, and returns Ok when it has drawn.
C10_VblankOneDrawPerRun ==
    (last.call.fn = "run" /\ last.pre.options.quirks.vblank = SomeTrue) =>
        /\ Cardinality(DrawsOfRun) <= 1
        /\ DrawsOfRun # {} => (DrawsOfRun = {Len(trace)} /\ result = "Ok")

\* run(4) under vblank has stopped after A20A and D015, with the sprite drawn
\* and two ticks unused.
C10_Witness ==
    /\ last.call.fn = "run" /\ last.call.tickrate = MaxTicks
    /\ last.pre.options.quirks.vblank = SomeTrue
    /\ Len(trace) = 2 /\ trace[2].opcode = 53269
    /\ result = "Ok" /\ pc = 516
    /\ ~display.clear

-----------------------------------------------------------------------------
(* The timers: the host sets delay and sound and calls run on a program    *)
(* that copies delay into V0.                                              *)

\* Calls per history.
MaxTimerOps == 3

\* The largest tickrate the host passes.
MaxTimerTicks == 2

\* 0x200: F007 (V0 <- delay), 0x202: 1200 (jump to 0x200).
TimerRom == (512 :> 240) @@ (513 :> 7) @@ (514 :> 18)

TimerValues == {0, 2, 255}

DelayWrapSettings == {None, SomeTrue, SomeFalse}

HostSetTimers ==
    /\ ops < MaxTimerOps
    /\ \E d \in TimerValues, s \in TimerValues :
          HostWrite([Chip EXCEPT !.delay = d, !.sound = s],
                    [fn |-> "timers", delay |-> d, sound |-> s])
    /\ ops' = ops + 1

TimerRun ==
    /\ ops < MaxTimerOps
    /\ \E tickrate \in 0..MaxTimerTicks : Run(tickrate)
    /\ ops' = ops + 1

InitTimers ==
    \E dw \in DelayWrapSettings :
        InitWith(New([DefaultQuirks EXCEPT !.delay_wrap = dw], TimerRom))

NextTimers == HostSetTimers \/ TimerRun

SpecTimers == InitTimers /\ [][NextTimers]_vars

\* The last run executed F007.
RanLoadDelay == \E k \in 1..Len(trace) : trace[k].opcode = 61447

\* C11: a run changes the timers once, before its first fetch: sound goes
\* down by 1 when it was above 0, delay goes down by 1 when it was above 0
\* and delay_wrap is not set, a timer at 0 stays 0, and with delay_wrap set
\* delay stays as it was; so for every tickrate, 0 included.  V0, copied from
\* delay by the program, holds the value after the decrement.
C11_TimersOncePerRun ==
    last.call.fn = "run" =>
        LET was == last.pre
            wrap == was.options.quirks.delay_wrap = SomeTrue
        IN  /\ sound = (IF was.sound > 0 THEN was.sound - 1 ELSE 0)
            /\ delay = (IF wrap THEN was.delay
                        ELSE IF was.delay > 0 THEN was.delay - 1 ELSE 0)
            /\ RanLoadDelay => v[0] = delay

\* A run of two ticks has taken delay and sound from 2 to 1, and
\* the program has read delay as 1.
C11_Witness ==
    /\ last.call.fn = "run" /\ last.call.tickrate = 2
    /\ last.pre.delay = 2 /\ last.pre.sound = 2
    /\ delay = 1 /\ sound = 1 /\ v[0] = 1
    /\ RanLoadDelay

-----------------------------------------------------------------------------
(* Errors in run: programs that reach each error of the interpreter, with  *)
(* instructions before and after the one that fails.                       *)

\* Calls of run per history.
MaxErrorRuns == 2

\* 2204 00FD, zeros after: the call goes to 0x204, beyond the exit.
RomCallPastExit == (512 :> 34) @@ (513 :> 4) @@ (515 :> 253)

\* 2204 6F07 00FD 6E09: the call goes to the exit at 0x204.
RomCallExit ==
    (512 :> 34) @@ (513 :> 4) @@ (514 :> 111) @@ (515 :> 7) @@ (517 :> 253)
    @@ (518 :> 110) @@ (519 :> 9)

\* 6001 FFFF 6E09: FFFF is no instruction.
RomUnknown ==
    (512 :> 96) @@ (513 :> 1) @@ (514 :> 255) @@ (515 :> 255)
    @@ (516 :> 110) @@ (517 :> 9)

\* 6001 00EE 6E09: a return on an empty stack.
RomUnderflow ==
    (512 :> 96) @@ (513 :> 1) @@ (515 :> 238) @@ (516 :> 110) @@ (517 :> 9)

\* 2200 6E09: a call of itself, until the stack is full.
RomOverflow == (512 :> 34) @@ (514 :> 110) @@ (515 :> 9)

\* 6001 F401 6E09: plane 4.
RomPlane ==
    (512 :> 96) @@ (513 :> 1) @@ (514 :> 244) @@ (515 :> 1)
    @@ (516 :> 110) @@ (517 :> 9)

ErrorRoms ==
    {RomCallPastExit, RomCallExit, RomUnknown, RomUnderflow, RomOverflow, RomPlane}

\* 17 ticks are one more than the calls the stack can take.
ErrorTickrates == {0, 1, 2, 3, 17}

ErrorRun ==
    /\ ops < MaxErrorRuns
    /\ \E tickrate \in ErrorTickrates : Run(tickrate)
    /\ ops' = ops + 1

InitErrors == \E rom \in ErrorRoms : InitWith(New(DefaultQuirks, rom))

NextErrors == ErrorRun

SpecErrors == InitErrors /\ [][NextErrors]_vars

\* n passes of the loop body of run, one after the other, whatever they return.
RECURSIVE Ticks(_, _)
Ticks(c, n) ==
    IF n = 0 THEN c
    ELSE LET t == Tick(c)
         IN  IF t.trace = << >> THEN t ELSE Ticks(t, n - 1)

\* The error that the instruction of an opcode returns when it fails.
ErrorOf(opcode) ==
    LET op == TryFrom(opcode).op
    IN  CASE op = "Err" -> ErrDecode
          [] op = "Exit" -> ErrExit
          [] op = "CallMachineCode" -> ErrMachineCode
          [] op = "Return" -> ErrPop
          [] op = "Call" -> ErrStack
          [] op = "SelectPlane" -> ErrPlane
          [] OTHER -> "Ok"

\* The last call was run(tickrate) on the program 22 04 00 FD at pc = 0x200.
RanCallPastExit(tickrate) ==
    /\ last.call.fn = "run" /\ last.call.tickrate = tickrate
    /\ last.pre.pc = 512 /\ last.pre.sp = 0
    /\ WordAt(last.pre.memory, 512) = 8708 /\ WordAt(last.pre.memory, 514) = 253

\* Within a run the instructions execute one after the other, each from the
\* state the one before left, and the first that fails is the last: the run
\* returns its error.
FirstErrorEndsRun ==
    last.call.fn = "run" =>
        LET n == Len(trace)
            start == Timers([last.pre EXCEPT !.res = "Ok", !.trace = << >>])
        IN  /\ n <= last.call.tickrate
            /\ \A k \in 0..(n - 1) : Ticks(start, k).res = "Ok"
            /\ Chip = Ticks(start, n)
            /\ n < last.call.tickrate => result # "Ok"
            /\ result # "Ok" => n >= 1 /\ result = ErrorOf(trace[n].opcode)

\* C12 as stated: the first error ends the run, and on 22 04 00 FD the first
\* instruction gives sp = 1, stack[1] = 0x202, pc = 0x204 and the second
\* returns the Exit error.
C12_SecondReturnsExit ==
    /\ FirstErrorEndsRun
    /\ RanCallPastExit(1) => sp = 1 /\ stack[1] = 514 /\ pc = 516 /\ result = "Ok"
    /\ RanCallPastExit(2) => result = ErrExit

\* C12 as amended: the first error ends the run, and on 22 04 00 FD with
\* zeros after it the first instruction gives sp = 1, stack[1] = 0x202,
\* pc = 0x204 and the second, the word 0000 at 0x204, returns the machine
\* code error; the exit at 0x202 is not reached.
C12_FirstErrorEndsRun ==
    /\ FirstErrorEndsRun
    /\ RanCallPastExit(1) => sp = 1 /\ stack[1] = 514 /\ pc = 516 /\ result = "Ok"
    /\ RanCallPastExit(2) =>
          /\ result = ErrMachineCode
          /\ Len(trace) = 2 /\ trace[2] = [addr |-> 516, opcode |-> 0]
          /\ sp = 1 /\ stack[1] = 514

\* run(17) on 2204 6F07 00FD 6E09 has returned the Exit error after two
\* instructions, with VE not set by the 6E09 that follows the exit.
C12_Witness ==
    /\ last.call.fn = "run" /\ last.call.tickrate = 17
    /\ last.pre.pc = 512 /\ last.pre.memory = RomCallExit
    /\ result = ErrExit /\ Len(trace) = 2
    /\ sp = 1 /\ stack[1] = 514 /\ pc = 518 /\ v[14] = 0

-----------------------------------------------------------------------------
(* STORE and LOAD: a program stores V0..Vx at I, overwrites V0 and Vx,     *)
(* sets I again or not, and loads V0..Vx.                                  *)

\* Calls of run per history.
MaxRoundTripRuns == 2

\* The words of a program, from 0x200 on, as a memory image.
RomOf(words) ==
    Sparse([a \in 512..(511 + 2 * Len(words)) |->
               LET w == words[((a - 512) \div 2) + 1]
               IN  IF a % 2 = 0 THEN w \div 256 ELSE w % 256])

\* F000 I0, FX55, 60EE, 6XEE, then F000 I0 (or 120E, a jump over one word),
\* then FX65 at 0x20E: six instructions either way.
RoundTripRom(x, i0, reset) ==
    RomOf(<< 61440, i0, 61525 + 256 * x, 24814, 24814 + 256 * x,
             IF reset THEN 61440 ELSE 4622, IF reset THEN i0 ELSE 0,
             61541 + 256 * x >>)

RoundTripRegs == {0, 5, 15}

\* From 0xFFF8 sixteen registers wrap around the end of memory.
RoundTripAddresses == {768, 65528}

RoundTripValues == { [k \in Reg |-> k + 1], [k \in Reg |-> 255 - k] }

LoadStoreSettings == {None, SomeTrue, SomeFalse}

\* Three ticks reach the end of the store, six the end of the load.
RoundTripTickrates == {3, 6}

RoundTripRun ==
    /\ ops < MaxRoundTripRuns
    /\ \E tickrate \in RoundTripTickrates : Run(tickrate)
    /\ ops' = ops + 1

InitRoundTrip ==
    \E x \in RoundTripRegs, i0 \in RoundTripAddresses, reset \in BOOLEAN,
       ls \in LoadStoreSettings, regs \in RoundTripValues :
        InitWith([New([DefaultQuirks EXCEPT !.load_store = ls],
                      RoundTripRom(x, i0, reset)) EXCEPT !.v = regs])

NextRoundTrip == RoundTripRun

SpecRoundTrip == InitRoundTrip /\ [][NextRoundTrip]_vars

\* The last call was run(tickrate) from the start of the program.
RanRoundTrip(tickrate) ==
    last.call.fn = "run" /\ last.call.tickrate = tickrate /\ last.pre.pc = 512

\* C13: with load_store set, STORE Vx then LOAD Vx recovers V0..Vx and
\* leaves I as it was; with load_store not set each of the two moves I on by
\* x + 1 modulo 65536, and the load recovers V0..Vx when I was set back to
\* its first value in between, and not otherwise.
C13_StoreLoadRoundTrip ==
    LET was == last.pre
        x == Nib(WordAt(was.memory, 516), 1)
        i0 == WordAt(was.memory, 514)
        reset == WordAt(was.memory, 522) = 61440
        ls == was.options.quirks.load_store = SomeTrue
        next == Wrap16(i0 + x + 1)
        recovered == \A n \in 0..x : v[n] = was.v[n]
    IN  /\ RanRoundTrip(3) =>
              /\ result = "Ok"
              /\ i = (IF ls THEN i0 ELSE next)
              /\ \A n \in 0..x : MemAt(memory, Wrap16(i0 + n)) = was.v[n]
        /\ RanRoundTrip(6) =>
              /\ result = "Ok"
              /\ \A n \in Reg : n > x => v[n] = was.v[n]
              /\ ls => recovered /\ i = i0
              /\ ~ls /\ reset => recovered /\ i = next
              /\ ~ls /\ ~reset =>
                    /\ ~recovered
                    /\ i = Wrap16(next + x + 1)
                    /\ \A n \in 0..x : v[n] = MemAt(was.memory, Wrap16(next + n))

\* With load_store set and I not set again, sixteen registers stored at
\* 0xFFF8, around the end of memory, have come back after V0 and VF were
\* overwritten.
C13_Witness ==
    /\ RanRoundTrip(6)
    /\ last.pre.options.quirks.load_store = SomeTrue
    /\ WordAt(last.pre.memory, 514) = 65528
    /\ WordAt(last.pre.memory, 516) = 65365
    /\ WordAt(last.pre.memory, 522) = 4622
    /\ i = 65528 /\ v = last.pre.v /\ v[0] = 1
    /\ MemAt(memory, 65535) = 8 /\ MemAt(memory, 0) = 9 /\ MemAt(memory, 7) = 16

-----------------------------------------------------------------------------
(* BCD: the host sets I and V0 and executes BCD V0.                        *)

\* Calls per history.
MaxBcdOps == 3

\* 0xFFFD is the last address with three bytes after it.
BcdAddresses == {768, 65533, 65534, 65535}

BcdValues == {0, 7, 99, 123, 255}

ExecuteSetIndex ==
    /\ ops < MaxBcdOps
    /\ \E a \in BcdAddresses : Execute([op |-> "SetIndex", nnn |-> a])
    /\ ops' = ops + 1

ExecuteSetValue ==
    /\ ops < MaxBcdOps
    /\ \E b \in BcdValues : Execute([op |-> "Set", x |-> 0, kk |-> b])
    /\ ops' = ops + 1

ExecuteBcd ==
    /\ ops < MaxBcdOps
    /\ Execute([op |-> "Bcd", x |-> 0])
    /\ ops' = ops + 1

InitBcd == InitWith(New(DefaultQuirks, << >>))

NextBcd == ExecuteSetIndex \/ ExecuteSetValue \/ ExecuteBcd

SpecBcd == InitBcd /\ [][NextBcd]_vars

\* C14: after BCD Vx the bytes a, b, c at I, I + 1, I + 2, addresses taken
\* modulo 65536, are decimal digits with 100 a + 10 b + c = Vx, for every I
\* in 0..0xFFFF, and nothing else has changed: no other byte of memory, no
\* register, not I.
C14_BcdDigits ==
    IsExec(last, "Bcd") =>
        LET was == last.pre
            vx == was.v[last.call.ins.x]
            at == {Wrap16(was.i + k) : k \in 0..2}
            a == MemAt(memory, was.i)
            b == MemAt(memory, Wrap16(was.i + 1))
            c == MemAt(memory, Wrap16(was.i + 2))
        IN  /\ result = "Ok"
            /\ {a, b, c} \subseteq 0..9
            /\ 100 * a + 10 * b + c = vx
            /\ \A k \in (DOMAIN memory \cup DOMAIN was.memory) \ at :
                  MemAt(memory, k) = MemAt(was.memory, k)
            /\ [Chip EXCEPT !.memory = << >>, !.res = "Ok", !.trace = << >>]
                 = [was EXCEPT !.memory = << >>, !.res = "Ok", !.trace = << >>]

-----------------------------------------------------------------------------
(* Arithmetic and logic on registers: the host sets V0, V1 and VF and      *)
(* executes the 8XY_ instructions on them.                                 *)

\* Calls per history.
MaxAluOps == 2

\* V0, V1 and VF as given, the other registers 0.
RegFile(a, b, f) ==
    [k \in Reg |-> IF k = 0 THEN a ELSE IF k = 1 THEN b ELSE IF k = 15 THEN f ELSE 0]

AluValues ==
    { RegFile(255, 2, 5), RegFile(10, 5, 129), RegFile(5, 5, 1), RegFile(0, 251, 0) }

AluOps == {"AddReg", "Sub", "SubReverse", "ShiftLeft", "ShiftRight", "Or", "And", "Xor"}

AluXs == {0, 1}

AluYs == {1, 15}

QuirkSettings == {None, SomeTrue, SomeFalse}

HostSetRegs ==
    /\ ops < MaxAluOps
    /\ \E regs \in AluValues : HostWrite([Chip EXCEPT !.v = regs], [fn |-> "v", value |-> regs])
    /\ ops' = ops + 1

ExecuteAlu ==
    /\ ops < MaxAluOps
    /\ \E op \in AluOps, x \in AluXs, y \in AluYs : Execute([op |-> op, x |-> x, y |-> y])
    /\ ops' = ops + 1

InitAlu ==
    \E sh \in QuirkSettings, lg \in QuirkSettings :
        InitWith(New([DefaultQuirks EXCEPT !.shift = sh, !.logic = lg], << >>))

NextAlu == HostSetRegs \/ ExecuteAlu

SpecAlu == InitAlu /\ [][NextAlu]_vars

\* The last call executed one of ops on Vx, Vy with x # F.
IsAlu(opnames) ==
    /\ last.call.fn = "execute"
    /\ last.call.ins.op \in opnames
    /\ last.call.ins.x # 15

\* C15: after ADD Vx, Vy with x # F, y = F included, Vx is the old Vx plus
\* the old Vy modulo 256 and VF is 1 if that sum is above 0xFF, else 0.
C15_AddCarry ==
    IsAlu({"AddReg"}) =>
        LET sum == last.pre.v[last.call.ins.x] + last.pre.v[last.call.ins.y]
        IN  /\ v[last.call.ins.x] = sum % 256
            /\ v[15] = (IF sum > 255 THEN 1 ELSE 0)

\* C16: after SUB Vx, Vy with x # F, y = F included, Vx is the old Vx minus
\* the old Vy modulo 256 and VF is 1 iff old Vx >= old Vy; after SUB_REVERSE
\* Vx is the old Vy minus the old Vx modulo 256 and VF is 1 iff
\* old Vy >= old Vx.
C16_SubBorrow ==
    LET a == last.pre.v[last.call.ins.x]
        b == last.pre.v[last.call.ins.y]
    IN  /\ IsAlu({"Sub"}) =>
              /\ v[last.call.ins.x] = (a - b + 256) % 256
              /\ v[15] = (IF a >= b THEN 1 ELSE 0)
        /\ IsAlu({"SubReverse"}) =>
              /\ v[last.call.ins.x] = (b - a + 256) % 256
              /\ v[15] = (IF b >= a THEN 1 ELSE 0)

\* C17: with operand = Vx if the shift quirk is set and Vy otherwise,
\* ShiftRight leaves VF = operand & 1 and Vx = operand >> 1, and ShiftLeft
\* leaves VF = (operand >> 7) & 1 and Vx = (operand << 1) mod 256, x # F.
C17_Shifts ==
    LET operand == IF last.pre.options.quirks.shift = SomeTrue
                   THEN last.pre.v[last.call.ins.x]
                   ELSE last.pre.v[last.call.ins.y]
    IN  /\ IsAlu({"ShiftRight"}) =>
              /\ v[15] = operand % 2
              /\ v[last.call.ins.x] = operand \div 2
        /\ IsAlu({"ShiftLeft"}) =>
              /\ v[15] = (operand \div 128) % 2
              /\ v[last.call.ins.x] = (operand * 2) % 256

\* C18: OR, AND and XOR Vx, Vy store the bitwise result in Vx; with the
\* logic quirk set they leave VF = 0, without it they leave VF as it was
\* (x # F).
C18_LogicClearsVF ==
    IsAlu({"Or", "And", "Xor"}) =>
        LET a == last.pre.v[last.call.ins.x]
            b == last.pre.v[last.call.ins.y]
            op == last.call.ins.op
        IN  /\ v[last.call.ins.x] = (CASE op = "Or" -> BitOr(a, b)
                                       [] op = "And" -> BitAnd(a, b)
                                       [] op = "Xor" -> BitXor(a, b))
            /\ v[15] = (IF last.pre.options.quirks.logic = SomeTrue
                        THEN 0 ELSE last.pre.v[15])

-----------------------------------------------------------------------------
(* BLOCK_KEY: a program that starts with F00A is run while the host        *)
(* presses keys.                                                           *)

\* Calls per history.
MaxKeyOps == 3

\* F00A 6105 6207: a two-byte instruction follows BLOCK_KEY.
RomBlockShort ==
    (512 :> 240) @@ (513 :> 10) @@ (514 :> 97) @@ (515 :> 5) @@ (516 :> 98) @@ (517 :> 7)

\* F00A F000 1234 6207: the four-byte instruction follows BLOCK_KEY.
RomBlockLong ==
    (512 :> 240) @@ (513 :> 10) @@ (514 :> 240) @@ (516 :> 18) @@ (517 :> 52)
    @@ (518 :> 98) @@ (519 :> 7)

KeyRoms == {RomBlockShort, RomBlockLong}

Keys == {3, 7}

KeyTickrates == {1, 2}

HostKey ==
    /\ ops < MaxKeyOps
    /\ \E k \in Keys :
          HostWrite([Chip EXCEPT !.keyboard[k] = TRUE], [fn |-> "keyboard", key |-> k])
    /\ ops' = ops + 1

KeyRun ==
    /\ ops < MaxKeyOps
    /\ \E tickrate \in KeyTickrates : Run(tickrate)
    /\ ops' = ops + 1

InitKeys == \E rom \in KeyRoms : InitWith(New(DefaultQuirks, rom))

NextKeys == HostKey \/ KeyRun

SpecKeys == InitKeys /\ [][NextKeys]_vars

\* The keys that were down when the last call began.
Pressed == {k \in 0..15 : last.pre.keyboard[k]}

\* The last call was a run that began at the BLOCK_KEY of the program.
RanBlockKey == last.call.fn = "run" /\ last.pre.pc = 512

\* While no key is down a run of any length leaves pc at BLOCK_KEY and the
\* registers as they were.
BlocksWithoutKey ==
    RanBlockKey /\ Pressed = {} =>
        result = "Ok" /\ pc = 512 /\ v = last.pre.v /\ keyboard = last.pre.keyboard

\* With a key down, one tick puts a pressed key in V0 and releases it.
TakesKey ==
    RanBlockKey /\ Pressed # {} /\ last.call.tickrate = 1 =>
        /\ result = "Ok"
        /\ v[0] \in Pressed
        /\ v = [last.pre.v EXCEPT ![0] = v[0]]
        /\ keyboard = [last.pre.keyboard EXCEPT ![v[0]] = FALSE]

\* C19 as stated: BLOCK_KEY waits at its own address while no key is down;
\* with a key down it takes the key and skips the instruction that follows
\* it, 4 bytes if that is F000.
C19_BlockKeySkipsNext ==
    /\ BlocksWithoutKey
    /\ TakesKey
    /\ RanBlockKey /\ Pressed # {} /\ last.call.tickrate = 1 =>
          pc = 514 + (IF WordAt(last.pre.memory, 514) = 61440 THEN 4 ELSE 2)

\* C19 as amended: BLOCK_KEY waits at its own address while no key is down;
\* with a key down it takes the key and its skip, made from its own
\* address, leaves pc at the instruction that follows it.
C19_BlockKeyContinues ==
    /\ BlocksWithoutKey
    /\ TakesKey
    /\ RanBlockKey /\ Pressed # {} /\ last.call.tickrate = 1 => pc = 514

\* With keys 3 and 7 down, one tick has put 3 in V0, released key 3 only and
\* left pc at the F000 that follows BLOCK_KEY.
C19_Witness ==
    /\ RanBlockKey /\ last.call.tickrate = 1
    /\ Pressed = {3, 7}
    /\ WordAt(memory, 514) = 61440
    /\ v[0] = 3 /\ ~keyboard[3] /\ keyboard[7]
    /\ pc = 514

-----------------------------------------------------------------------------
(* The frame of the scrolls, under SpecDisplay.                            *)

\* C20: a scroll in any direction, in either mode, with any active plane,
\* leaves the bits of the other planes as they were in every cell, changes
\* no cell outside the width x height region, and indexes nothing outside
\* the 64 x 128 buffer.
C20_ScrollFrame ==
    IsScroll(last) =>
        LET was == last.pre.display
            p == was.active_plane
            inside(c) == c[1] \in 0..(was.height - 1) /\ c[2] \in 0..(was.width - 1)
        IN  /\ result = "Ok"
            /\ \A c \in DOMAIN display.display \cup DOMAIN was.display :
                  /\ AndNot(Px(display.display, c[1], c[2]), p)
                       = AndNot(Px(was.display, c[1], c[2]), p)
                  /\ ~inside(c) =>
                        Px(display.display, c[1], c[2]) = Px(was.display, c[1], c[2])

-----------------------------------------------------------------------------
(* Planes: the host selects planes, sets I and executes DRAW V0, V1, n on  *)
(* sprite data at 0x300.                                                   *)

\* Calls per history.
MaxPlaneOps == 4

\* 0x300: 80 C0 01 80: rows that share their first pixel and rows that do not.
PlaneRom == (768 :> 128) @@ (769 :> 192) @@ (770 :> 1) @@ (771 :> 128)

PlaneAddresses == {768, 769}

\* Planes 4 and 15 do not exist.
PlaneNumbers == {0, 1, 2, 3, 4, 15}

\* DRAW with n = 0 draws nothing in lores without the lores_dxy0 quirk.
PlaneHeights == {0, 1, 2}

ExecutePlaneIndex ==
    /\ ops < MaxPlaneOps
    /\ \E a \in PlaneAddresses : Execute([op |-> "SetIndex", nnn |-> a])
    /\ ops' = ops + 1

ExecuteSelectPlane ==
    /\ ops < MaxPlaneOps
    /\ \E n \in PlaneNumbers : Execute([op |-> "SelectPlane", n |-> n])
    /\ ops' = ops + 1

ExecuteDraw ==
    /\ ops < MaxPlaneOps
    /\ \E n \in PlaneHeights : Execute([op |-> "Draw", x |-> 0, y |-> 1, n |-> n])
    /\ ops' = ops + 1

InitPlanes == InitWith(New(DefaultQuirks, PlaneRom))

NextPlanes == ExecutePlaneIndex \/ ExecuteSelectPlane \/ ExecuteDraw

SpecPlanes == InitPlanes /\ [][NextPlanes]_vars

\* C21: a DRAW with both planes selected reads the sprite of plane 2 from the
\* bytes that follow the sprite of plane 1, and leaves VF = 1 if it erased a
\* lit pixel in plane 1 or in plane 2, else 0.
C21_DrawBothPlanesVF ==
    IsExec(last, "Draw") /\ last.pre.display.active_plane = 3 /\ last.call.ins.n > 0 =>
        LET was == last.pre
            n == last.call.ins.n
            x == was.v[last.call.ins.x]
            y == was.v[last.call.ins.y]
            one == draw([was.display EXCEPT !.active_plane = 1],
                        Sprite(was.memory, was.i, 8, n), x, y)
            two == draw([one.d EXCEPT !.active_plane = 2],
                        Sprite(was.memory, Wrap16(was.i + n), 8, n), x, y)
        IN  /\ display.display = two.d.display
            /\ v[15] = (IF one.collision = 1 \/ two.collision = 1 THEN 1 ELSE 0)

\* A plane number that SELECT_PLANE accepts.
ValidPlane(n) == n \in 0..3

\* C22: between instructions active_plane is in {0, 1, 2, 3}: SELECT_PLANE n
\* with n > 3 returns an error and leaves it as it was, with n <= 3 sets it
\* to n, and DRAW leaves it as it was before the draw.
C22_ActivePlaneInRange ==
    /\ ValidPlane(display.active_plane)
    /\ IsExec(last, "SelectPlane") =>
          IF ValidPlane(last.call.ins.n)
          THEN result = "Ok" /\ display.active_plane = last.call.ins.n
          ELSE result = ErrPlane /\ display = last.pre.display
    /\ IsExec(last, "Draw") =>
          result = "Ok" /\ display.active_plane = last.pre.display.active_plane

\* With both planes selected a draw has changed the screen in both and left
\* active_plane at 3; before it, plane 4 was refused.
C22_Witness ==
    /\ IsExec(before, "SelectPlane") /\ before.call.ins.n = 4
    /\ last.pre.res = ErrPlane
    /\ IsExec(last, "Draw") /\ last.call.ins.n = 2
    /\ display.active_plane = 3
    /\ \E c \in DOMAIN display.display : display.display[c] = 3

-----------------------------------------------------------------------------
(* Instructions that index by Vx: the key skips and the font characters,   *)
(* with V0 beyond 15, in a build with and without overflow checks.         *)

\* Calls per history.
MaxIndexOps == 3

\* 19 is 0x13: key 3 under the mask 0x0F.  52 * 5 and 26 * 10 pass 255.
IndexValues == {3, 15, 16, 19, 26, 52, 255}

IndexKeys == {3}

ExecuteSetVx ==
    /\ ops < MaxIndexOps
    /\ \E b \in IndexValues : Execute([op |-> "Set", x |-> 0, kk |-> b])
    /\ ops' = ops + 1

HostPressIndexKey ==
    /\ ops < MaxIndexOps
    /\ \E k \in IndexKeys :
          HostWrite([Chip EXCEPT !.keyboard[k] = TRUE], [fn |-> "keyboard", key |-> k])
    /\ ops' = ops + 1

ExecuteKeySkip ==
    /\ ops < MaxIndexOps
    /\ \E op \in {"SkipKey", "SkipNotKey"} : Execute([op |-> op, x |-> 0])
    /\ ops' = ops + 1

ExecuteFont ==
    /\ ops < MaxIndexOps
    /\ \E op \in {"FontCharacter", "BigFontCharacter"} : Execute([op |-> op, x |-> 0])
    /\ ops' = ops + 1

InitIndex == \E checks \in BOOLEAN : InitBuild(New(DefaultQuirks, << >>), checks)

NextIndex == ExecuteSetVx \/ HostPressIndexKey \/ ExecuteKeySkip \/ ExecuteFont

SpecIndex == InitIndex /\ [][NextIndex]_vars

\* C23: SKIP_KEY Vx and SKIP_NOT_KEY Vx look at keyboard[Vx & 0xF] for every
\* Vx in 0..255: SKIP_KEY skips iff that key is down, SKIP_NOT_KEY iff it is
\* not, and no Vx makes them index outside the 16 keys.
C23_SkipKeyMasksVx ==
    IsExec(last, "SkipKey") \/ IsExec(last, "SkipNotKey") =>
        LET was == last.pre
            down == was.keyboard[was.v[last.call.ins.x] % 16]
            fires == (last.call.ins.op = "SkipKey") = down
            stride == IF WordAt(was.memory, was.pc) = 61440 THEN 4 ELSE 2
        IN  /\ result = "Ok"
            /\ pc = (IF fires THEN Wrap16(was.pc + stride) ELSE was.pc)

\* C24: FONT_CHAR Vx sets I = 0x50 + (Vx & 0x0F) * 5 and BIG_FONT_CHAR Vx
\* sets I = 0xA0 + (Vx & 0x0F) * 10 for every Vx in 0..255: I is the start
\* of one of the 16 glyphs and the product never passes 8 bits.
C24_FontMasksVx ==
    LET digit == last.pre.v[last.call.ins.x] % 16
    IN  /\ IsExec(last, "FontCharacter") => result = "Ok" /\ i = 80 + digit * 5
        /\ IsExec(last, "BigFontCharacter") => result = "Ok" /\ i = 160 + digit * 10

-----------------------------------------------------------------------------
(* A CALL that fails, under SpecStack.                                     *)

\* C25: a CALL that fails with "Stack limit exceeded" leaves sp, the stack
\* and pc as they were before it, so sp still names one of the 16 slots and
\* a RETURN after it indexes none outside them.
C25_FailedCallLeavesState ==
    /\ IsExec(last, "Call") /\ result = ErrStack =>
          /\ sp = last.pre.sp /\ stack = last.pre.stack /\ pc = last.pre.pc
          /\ sp \in 0..(StackLen - 1)
    /\ IsExec(before, "Call") /\ last.pre.res = ErrStack /\ IsExec(last, "Return") =>
          result # Panic
====
